---- MODULE Spec2Model ----
(***************************************************************************)
(* Model of vscodeext.py: the engine-range matcher, the per-extension      *)
(* version selection and the pack-closure loop of Extension.run.           *)
(*                                                                         *)
(* Python strings are sequences of one-character strings, so that split,   *)
(* int and the filename concatenations are computed as the code computes   *)
(* them.  A Python exception raised by a helper is the value Raised, or a   *)
(* "fault" field naming it: "ParseError" is the IndexError or ValueError   *)
(* that version_serial raises on a malformed string, "IndexError" the one  *)
(* of versions[-1] on an empty list.                                       *)
(***************************************************************************)
EXTENDS Integers, Sequences, FiniteSets, TLC

VARIABLES
    slugs,           \* run(dest_dir, slugs): the seed identifiers
    catalog,         \* what the marketplace answers: name -> extension record
    engine,          \* self.engine, the host version string
    pc,              \* position of run(): start, download, loop, get, done, fault
    all_extensions,  \* self.all_extensions
    downloads,       \* self.downloads: filename -> (version, engine, url, lastUpdated)
    packs,           \* self.packs
    storage,         \* files under dest_dir: filename -> (url fetched, mtime source)
    new_extensions,  \* the local new_extensions of the while loop
    resp,            \* _get_downloads: names of the returned records not yet handled
    plat,            \* _get_download: 1 before find_version(linux-x64), 2 before linux-arm64
    vsix,            \* _get_download: the local set vsix
    fault,           \* the exception that ended the run, "none" otherwise
    queried,         \* history: identifiers submitted to _query in earlier passes
    earlier,         \* history: filename -> descriptor derived in an earlier pass
    derived,         \* history: filename and descriptor of the last find_version
    resolved,        \* history: <<name, filename>> of every find_version that returned
    arg,             \* input of the function under test (function specifications)
    ret              \* its result

vars == <<slugs, catalog, engine, pc, all_extensions, downloads, packs,
          storage, new_extensions, resp, plat, vsix, fault, queried, earlier,
          derived, resolved, arg, ret>>

runvars == <<slugs, catalog, engine, pc, all_extensions, downloads, packs,
             storage, new_extensions, resp, plat, vsix, fault, queried,
             earlier, derived, resolved>>

-----------------------------------------------------------------------------
(* Bounds *)

MaxMajor == 1
MaxNum == 3

-----------------------------------------------------------------------------
(* Python str / int / tuple primitives *)

None == <<"None">>
Raised == <<>>

\* the element of a one-element set: The({F(x) : x \in {e}}) is F(e) with e
\* evaluated once
The(S) == CHOOSE z \in S : TRUE

Digits == <<"0", "1", "2", "3", "4", "5", "6", "7", "8", "9">>

\* the characters that occur in the strings of the model, in code-point order
Ascii == <<"*", "-", ".", "/", "0", "1", "2", "3", "4", "5", "6", "7", "8",
           "9", ":", "I", "M", "P", "S", "V", "X", "^", "_", "a", "b", "c",
           "d", "e", "f", "g", "h", "i", "j", "k", "l", "m", "n", "o", "p",
           "q", "r", "s", "t", "u", "v", "w", "x", "y", "z">>

Ord(c) == CHOOSE i \in 1..Len(Ascii) : Ascii[i] = c

IsDigit(c) == \E i \in 1..10 : Digits[i] = c

DigitVal(c) == (CHOOSE i \in 1..10 : Digits[i] = c) - 1

\* str(n) for n >= 0
RECURSIVE Dec(_)
Dec(n) == IF n < 10 THEN <<Digits[n + 1]>>
          ELSE Dec(n \div 10) \o <<Digits[(n % 10) + 1]>>

Contains(s, c) == \E i \in 1..Len(s) : s[i] = c

IndexOf(s, c) == CHOOSE i \in 1..Len(s) : s[i] = c /\ \A j \in 1..(i - 1) : s[j] # c

\* s.split(sep, maxsplit=maxsplit) for a one-character sep
RECURSIVE Split(_, _, _)
Split(s, sep, maxsplit) ==
    IF maxsplit = 0 \/ ~Contains(s, sep) THEN <<s>>
    ELSE The({<<SubSeq(s, 1, i - 1)>> \o Split(SubSeq(s, i + 1, Len(s)), sep, maxsplit - 1) :
                 i \in {IndexOf(s, sep)}})

AllDigits(s) == s # <<>> /\ \A i \in 1..Len(s) : IsDigit(s[i])

\* int(s) succeeds: an optional sign and decimal digits (the model's strings
\* hold no blanks and no digit-group underscores)
IsInt(s) == \/ AllDigits(s)
            \/ Len(s) > 1 /\ s[1] \in {"-", "+"} /\ AllDigits(Tail(s))

RECURSIVE Nat10(_)
Nat10(s) == IF s = <<>> THEN 0
            ELSE 10 * Nat10(SubSeq(s, 1, Len(s) - 1)) + DigitVal(s[Len(s)])

Int10(s) == IF s[1] = "-" THEN 0 - Nat10(Tail(s))
            ELSE IF s[1] = "+" THEN Nat10(Tail(s))
            ELSE Nat10(s)

\* a < b for two Python str
RECURSIVE StrLess(_, _)
StrLess(a, b) ==
    IF b = <<>> THEN FALSE
    ELSE IF a = <<>> THEN TRUE
    ELSE IF a[1] # b[1] THEN Ord(a[1]) < Ord(b[1])
    ELSE StrLess(Tail(a), Tail(b))

\* a < b for two tuples made by version_serial: three int, then maybe a str
RECURSIVE TupleLess(_, _, _)
TupleLess(a, b, i) ==
    IF i > Len(b) THEN FALSE
    ELSE IF i > Len(a) THEN TRUE
    ELSE IF a[i] # b[i] THEN (IF i = 4 THEN StrLess(a[i], b[i]) ELSE a[i] < b[i])
    ELSE TupleLess(a, b, i + 1)

-----------------------------------------------------------------------------
(* version_serial and engine_match *)

\* SerialOf with the suffix after the hyphen thrown away
SerialOf_DropTag(v) ==
    IF Len(v) < 3 THEN Raised
    ELSE The({IF IsInt(v[1]) /\ IsInt(v[2]) /\ IsInt(r[1])
              THEN <<Int10(v[1]), Int10(v[2]), Int10(r[1])>>
              ELSE Raised :
                 r \in {Split(v[3], "-", 1)}})

\* version_serial after v = version.split(".", maxsplit=2)
SerialOf(v) ==
    IF Len(v) < 3 THEN Raised                          \* v[2]: IndexError
    ELSE IF Contains(v[3], "-")
    THEN The({IF IsInt(v[1]) /\ IsInt(v[2]) /\ IsInt(r[1])
              THEN <<Int10(v[1]), Int10(v[2]), Int10(r[1]), r[2]>>
              ELSE Raised :                            \* int(): ValueError
                 r \in {Split(v[3], "-", 1)}})
    ELSE IF IsInt(v[1]) /\ IsInt(v[2]) /\ IsInt(v[3])
         THEN <<Int10(v[1]), Int10(v[2]), Int10(v[3])>>
         ELSE Raised

version_serial(version) == The({SerialOf(v) : v \in {Split(version, ".", 2)}})

Star == <<"*">>
Insiders == <<"i", "n", "s", "i", "d", "e", "r", "s">>
Insider == <<"i", "n", "s", "i", "d", "e", "r">>

\* engine_match(pattern, engine) ends in an exception
engine_match_raises(pattern, host) ==
    IF pattern = Star THEN FALSE
    ELSE IF pattern = <<>> THEN TRUE                   \* pattern[0]: IndexError
    ELSE IF pattern[1] # "^" THEN FALSE
    ELSE version_serial(Tail(pattern)) = Raised \/ version_serial(host) = Raised

\* rr with the patch floor compared by >= instead of >
rr_StrictPatch(p, v) ==
    IF Len(p) = 4 /\ p[4] = Insiders THEN FALSE
    ELSE IF p[1] # v[1] THEN FALSE
    ELSE IF p[2] > v[2] THEN FALSE
    ELSE IF p[2] = v[2] /\ p[3] # 0 /\ p[3] >= v[3] THEN FALSE
    ELSE TRUE

\* rr that admits only the minor version of the pattern
rr_SameMinor(p, v) ==
    IF Len(p) = 4 /\ p[4] = Insiders THEN FALSE
    ELSE IF p[1] # v[1] THEN FALSE
    ELSE IF p[2] # v[2] THEN FALSE
    ELSE IF p[2] = v[2] /\ p[3] # 0 /\ p[3] > v[3] THEN FALSE
    ELSE TRUE

\* the inner function rr() of engine_match, on two parsed tuples
rr(p, v) ==
    IF Len(p) = 4 /\ p[4] = Insiders THEN FALSE
    ELSE IF p[1] # v[1] THEN FALSE
    ELSE IF p[2] > v[2] THEN FALSE
    ELSE IF p[2] = v[2] /\ p[3] # 0 /\ p[3] > v[3] THEN FALSE
    ELSE TRUE

\* engine_match without the test of the leading caret: a pattern that parses
\* as a version is matched as if it had one
engine_match_NoCaretTest(pattern, host) ==
    IF pattern = Star THEN TRUE
    ELSE The({IF p = Raised \/ v = Raised THEN FALSE
              ELSE IF Len(p) = 4 /\ p[4] = Insiders THEN FALSE
              ELSE p[1] = v[1] /\ p[2] <= v[2] :
                 p \in {version_serial(IF pattern[1] = "^" THEN Tail(pattern) ELSE pattern)},
                 v \in {version_serial(host)}})

\* the value engine_match(pattern, engine) returns when it does not raise
engine_match(pattern, host) ==
    IF pattern = Star THEN TRUE
    ELSE IF pattern[1] # "^" THEN FALSE
    ELSE The({rr(p, v) : p \in {version_serial(Tail(pattern))},
                            v \in {version_serial(host)}})

-----------------------------------------------------------------------------
(* Extension._get_download: filter_version and find_version *)

LinuxX64 == <<"l", "i", "n", "u", "x", "-", "x", "6", "4">>
LinuxArm64 == <<"l", "i", "n", "u", "x", "-", "a", "r", "m", "6", "4">>
VsixExt == <<".", "v", "s", "i", "x">>
VSIXPackage == <<"/", "M", "i", "c", "r", "o", "s", "o", "f", "t", ".", "V", "i",
                 "s", "u", "a", "l", "S", "t", "u", "d", "i", "o", ".", "S", "e",
                 "r", "v", "i", "c", "e", "s", ".", "V", "S", "I", "X", "P", "a",
                 "c", "k", "a", "g", "e">>
LldbName == <<"v", "a", "d", "i", "m", "c", "n", ".", "v", "s", "c", "o", "d", "e",
              "-", "l", "l", "d", "b">>
LldbUrlHead == <<"h", "t", "t", "p", "s", ":", "/", "/", "g", "i", "t", "h", "u",
                 "b", ".", "c", "o", "m", "/", "v", "a", "d", "i", "m", "c", "n",
                 "/", "v", "s", "c", "o", "d", "e", "-", "l", "l", "d", "b", "/",
                 "r", "e", "l", "e", "a", "s", "e", "s", "/", "d", "o", "w", "n",
                 "l", "o", "a", "d", "/", "v">>
LldbUrlMid == <<"/", "c", "o", "d", "e", "l", "l", "d", "b", "-">>
X86_64 == <<"x", "8", "6", "_", "6", "4">>
Aarch64 == <<"a", "a", "r", "c", "h", "6", "4">>
True == <<"t", "r", "u", "e">>

EngineKey == "Microsoft.VisualStudio.Code.Engine"
PreReleaseKey == "Microsoft.VisualStudio.Code.PreRelease"

\* get_property(version, name); a version without a "properties" list is a
\* version with the empty list (both give None)
RECURSIVE PropertyIn(_, _)
PropertyIn(properties, name) ==
    IF properties = <<>> THEN None
    ELSE IF Head(properties).key = name THEN Head(properties).value
    ELSE PropertyIn(Tail(properties), name)

get_property(version, name) == PropertyIn(version.properties, name)

\* filter_version(extension, platform), run to exhaustion by sorted():
\* the versions it yields, or the exception that ends it
\* FilterStep without the test of the PreRelease property
FilterStep_KeepPreRelease(version, rest, platform, host) ==
    LET v == get_property(version, EngineKey)
    IN  IF version.flags # "validated" /\ version.flags # "none"
        THEN [fault |-> "SystemExit", out |-> <<>>]
        ELSE IF version.targetPlatform # None /\ version.targetPlatform # platform
        THEN rest
        ELSE IF v = None \/ v = <<>>
        THEN rest
        ELSE IF engine_match_raises(v, host)
        THEN [fault |-> "ParseError", out |-> <<>>]
        ELSE IF engine_match(v, host)
        THEN [fault |-> rest.fault,
              out |-> IF rest.fault = "none" THEN <<version>> \o rest.out ELSE <<>>]
        ELSE rest

\* FilterStep where a version with an unaccepted flag is skipped
FilterStep_SkipBadFlags(version, rest, platform, host) ==
    LET v == get_property(version, EngineKey)
    IN  IF version.flags # "validated" /\ version.flags # "none"
        THEN rest
        ELSE IF version.targetPlatform # None /\ version.targetPlatform # platform
        THEN rest
        ELSE IF get_property(version, PreReleaseKey) = True
        THEN rest
        ELSE IF v = None \/ v = <<>>
        THEN rest
        ELSE IF engine_match_raises(v, host)
        THEN [fault |-> "ParseError", out |-> <<>>]
        ELSE IF engine_match(v, host)
        THEN [fault |-> rest.fault,
              out |-> IF rest.fault = "none" THEN <<version>> \o rest.out ELSE <<>>]
        ELSE rest

\* one turn of the loop of filter_version on version, where rest is what
\* the loop does on the versions after it
FilterStep(version, rest, platform, host) ==
    LET v == get_property(version, EngineKey)
    IN  IF version.flags # "validated" /\ version.flags # "none"
        THEN [fault |-> "SystemExit", out |-> <<>>]
        ELSE IF version.targetPlatform # None /\ version.targetPlatform # platform
        THEN rest
        ELSE IF get_property(version, PreReleaseKey) = True
        THEN rest
        ELSE IF v = None \/ v = <<>>
        THEN rest
        ELSE IF engine_match_raises(v, host)
        THEN [fault |-> "ParseError", out |-> <<>>]
        ELSE IF engine_match(v, host)
        THEN [fault |-> rest.fault,
              out |-> IF rest.fault = "none" THEN <<version>> \o rest.out ELSE <<>>]
        ELSE rest

RECURSIVE filter_version(_, _, _)
filter_version(versions, platform, host) ==
    IF versions = <<>> THEN [fault |-> "none", out |-> <<>>]
    ELSE The({FilterStep(Head(versions), rest, platform, host) :
                 rest \in {filter_version(Tail(versions), platform, host)}})

Front(s) == SubSeq(s, 1, Len(s) - 1)
Last(s) == s[Len(s)]

\* sorted(versions, key=lambda v: version_serial(v["version"])): a stable sort
\* KeyLess on the numeric triples only
KeyLess_ByTriple(x, y) ==
    The({TupleLess(SubSeq(a, 1, 3), SubSeq(b, 1, 3), 1) :
            a \in {version_serial(x.version)}, b \in {version_serial(y.version)}})

\* the order sorted() puts two versions in: key(x) < key(y)
KeyLess(x, y) ==
    The({TupleLess(a, b, 1) : a \in {version_serial(x.version)},
                              b \in {version_serial(y.version)}})

RECURSIVE Insert(_, _)
Insert(s, x) ==
    IF s = <<>> THEN <<x>>
    ELSE IF KeyLess(x, Last(s))
    THEN Insert(Front(s), x) \o <<Last(s)>>
    ELSE s \o <<x>>

RECURSIVE Sorted(_)
Sorted(s) == IF s = <<>> THEN <<>>
             ELSE The({Insert(t, Last(s)) : t \in {Sorted(Front(s))}})

\* the empty dict
NoFiles == [k \in {} |-> <<>>]

NoDerived == [vsix |-> <<>>, download |-> <<>>, version |-> <<>>]

NoVersion == [version |-> <<>>, flags |-> "none", targetPlatform |-> None,
              properties |-> <<>>, assetUri |-> <<>>, lastUpdated |-> "never"]

NoFind(dl, f) == [fault |-> f, vsix |-> <<>>, download |-> <<>>,
                  version |-> NoVersion, downloads |-> dl]

\* the architecture table of the vadimcn.vscode-lldb case
LldbArch(arch) == IF arch = <<"x", "6", "4">> THEN X86_64 ELSE Aarch64

\* asset_uri of find_version
AssetUri(name, version, platform) ==
    LET osarch == Split(platform, "-", Len(platform))
    IN  IF name = LldbName
        THEN LldbUrlHead \o version.version \o LldbUrlMid
                 \o LldbArch(osarch[2]) \o <<"-">> \o osarch[1] \o VsixExt
        ELSE version.assetUri \o VSIXPackage

\* FileName with the requested platform as the tag of every artifact
FileName_RequestedPlatform(name, version, platform) ==
    name \o <<"-">> \o platform \o <<"-">> \o version.version \o VsixExt

\* the filename find_version derives: lines 230-241
FileName(name, version, platform) ==
    LET target_platform == IF name = LldbName THEN platform ELSE version.targetPlatform
    IN  IF target_platform # None /\ target_platform # <<>>
        THEN name \o <<"-">> \o target_platform \o <<"-">> \o version.version \o VsixExt
        ELSE name \o <<"-">> \o version.version \o VsixExt

\* the tuple download of find_version: lines 243-248
Descriptor(name, version, platform) ==
    <<version.version, get_property(version, EngineKey),
      AssetUri(name, version, platform), version.lastUpdated>>

\* self.downloads[file] = download
Stored(dl, file, download) ==
    [k \in DOMAIN dl \cup {file} |-> IF k = file THEN download ELSE dl[k]]

\* Resolve without the assert: the last descriptor wins
Resolve_NoAssert(name, version, platform, dl) ==
    [fault |-> "none", vsix |-> FileName(name, version, platform),
     download |-> Descriptor(name, version, platform), version |-> version,
     downloads |-> Stored(dl, FileName(name, version, platform),
                          Descriptor(name, version, platform))]

\* the part of find_version after the selection: lines 229-254
Resolve(name, version, platform, dl) ==
    The({IF file \in DOMAIN dl /\ dl[file] # download
         THEN [fault |-> "AssertionError", vsix |-> file, download |-> download,
               version |-> version, downloads |-> dl]
         ELSE [fault |-> "none", vsix |-> file, download |-> download,
               version |-> version, downloads |-> Stored(dl, file, download)] :
            file \in {FileName(name, version, platform)},
            download \in {Descriptor(name, version, platform)}})

\* Selection that returns nothing when no version survives
Selection_NoneWhenEmpty(name, f, platform, dl) ==
    IF f.fault # "none" THEN NoFind(dl, f.fault)
    ELSE IF \E i \in 1..Len(f.out) : version_serial(f.out[i].version) = Raised
         THEN NoFind(dl, "ParseError")
    ELSE IF f.out = <<>> THEN NoFind(dl, "none")
    ELSE The({Resolve(name, version, platform, dl) : version \in {Last(Sorted(f.out))}})

\* find_version after the filter: lines 226-254
Selection(name, f, platform, dl) ==
    IF f.fault # "none" THEN NoFind(dl, f.fault)
    ELSE IF \E i \in 1..Len(f.out) : version_serial(f.out[i].version) = Raised
         THEN NoFind(dl, "ParseError")
    ELSE IF f.out = <<>> THEN NoFind(dl, "IndexError")
    ELSE The({Resolve(name, version, platform, dl) : version \in {Last(Sorted(f.out))}})

find_version(name, extension, platform, host, dl) ==
    The({Selection(name, f, platform, dl) :
            f \in {filter_version(extension.versions, platform, host)}})

-----------------------------------------------------------------------------
(* Inputs of the function specifications *)

MajorVals == 0..MaxMajor
MinorVals == 0..MaxNum \cup {49, 50, 60}
PatchVals == 0..MaxNum \cup {9}

Tags == {None, Insiders, Insider, <<"b">>}

\* "M.m.p" or "M.m.p-tag"
FormatVersion(M, m, p, tag) ==
    Dec(M) \o <<".">> \o Dec(m) \o <<".">> \o Dec(p)
        \o (IF tag = None THEN <<>> ELSE <<"-">> \o tag)

Legacy == <<"0", ".", "1", "0", ".", "x">>

\* the declared engine range of an input: a pattern string, or None when the
\* version has no Microsoft.VisualStudio.Code.Engine property
PatternOf(a) ==
    CASE a.kind = "caret"   -> <<"^">> \o FormatVersion(a.M, a.m, a.p, a.tag)
      [] a.kind = "bare"    -> FormatVersion(a.M, a.m, a.p, a.tag)
      [] a.kind = "short"   -> <<"^">> \o Dec(a.M) \o <<".">> \o Dec(a.m)
      [] a.kind = "star"    -> Star
      [] a.kind = "legacy"  -> Legacy
      [] a.kind = "empty"   -> <<>>
      [] a.kind = "missing" -> None

HostOf(a) == FormatVersion(a.H, a.h, a.q, a.htag)

Hosts == [H : MajorVals, h : MinorVals, q : PatchVals, htag : {None, Insider}]

PatternInputs ==
    [kind : {"caret"}, M : MajorVals, m : MinorVals, p : PatchVals, tag : Tags]
    \cup [kind : {"bare"}, M : MajorVals, m : MinorVals, p : PatchVals,
          tag : {None, Insider}]
    \cup [kind : {"short"}, M : MajorVals, m : MinorVals, p : {0}, tag : {None}]
    \cup [kind : {"star", "legacy", "empty", "missing"}, M : {0}, m : {0},
          p : {0}, tag : {None}]

\* a pattern input with each of the hosts
EngineInputs(hosts) ==
    {[kind |-> x.kind, M |-> x.M, m |-> x.m, p |-> x.p, tag |-> x.tag,
      H |-> y.H, h |-> y.h, q |-> y.q, htag |-> y.htag] :
        x \in PatternInputs, y \in hosts}

NoRet == [done |-> FALSE, called |-> FALSE, raised |-> FALSE, value |-> FALSE]

\* the run of Extension.run does not take part in a function specification
RunIdle ==
    /\ slugs = {}
    /\ catalog = <<>>
    /\ engine = <<>>
    /\ pc = "idle"
    /\ all_extensions = {}
    /\ downloads = NoFiles
    /\ packs = {}
    /\ storage = NoFiles
    /\ new_extensions = {}
    /\ resp = <<>>
    /\ plat = 1
    /\ vsix = {}
    /\ fault = "none"
    /\ queried = {}
    /\ earlier = NoFiles
    /\ derived = NoDerived
    /\ resolved = {}

-----------------------------------------------------------------------------
(* SpecEngine: the engine test of filter_version,                          *)
(*     v = get_property(version, "...Engine")                               *)
(*     if v and engine_match(v, self.engine)                                *)

InitEngine ==
    /\ RunIdle
    /\ arg \in EngineInputs(Hosts)
    /\ ret = NoRet

EngineTest ==
    /\ pc = "idle"
    /\ ~ret.done
    /\ LET v == PatternOf(arg)
           called == v # None /\ v # <<>>
           raised == called /\ engine_match_raises(v, HostOf(arg))
       IN  ret' = [done |-> TRUE, called |-> called, raised |-> raised,
                   value |-> called /\ ~raised /\ engine_match(v, HostOf(arg))]
    /\ UNCHANGED <<arg, runvars>>

NextEngine == EngineTest

SpecEngine == InitEngine /\ [][NextEngine]_vars

-----------------------------------------------------------------------------
(* SpecSerial: version_serial on a tagged and an untagged version string    *)
(* of the same numeric triple, and the comparison sorted() makes of them    *)

SerialInputs == [M : MajorVals, m : MinorVals, p : PatchVals, tag : Tags \ {None}]

NoSerial == [done |-> FALSE, tagged |-> Raised, plain |-> Raised]

InitSerial ==
    /\ RunIdle
    /\ arg \in SerialInputs
    /\ ret = NoSerial

SerialParse ==
    /\ pc = "idle"
    /\ ~ret.done
    /\ ret' = [done |-> TRUE,
               tagged |-> version_serial(FormatVersion(arg.M, arg.m, arg.p, arg.tag)),
               plain |-> version_serial(FormatVersion(arg.M, arg.m, arg.p, None))]
    /\ UNCHANGED <<arg, runvars>>

NextSerial == SerialParse

SpecSerial == InitSerial /\ [][NextSerial]_vars

-----------------------------------------------------------------------------
(* SpecSelect: find_version on one extension record and one platform *)

HostEngine == <<"1", ".", "6", "0", ".", "0">>
EngineOk == <<"^", "1", ".", "5", "0", ".", "0">>
EngineNewer == <<"^", "2", ".", "0", ".", "0">>

V100 == <<"1", ".", "0", ".", "0">>
V100b == <<"1", ".", "0", ".", "0", "-", "b">>
V110 == <<"1", ".", "1", ".", "0">>
V10 == <<"1", ".", "0">>

Platforms == {LinuxX64, LinuxArm64}

NameA == <<"p", ".", "a">>

\* a version record as the catalog returns it for the extension called name
VersionRecordOf(name, ver, flags, tp, pre, eng) ==
    [version |-> ver, flags |-> flags, targetPlatform |-> tp,
     properties |->
         (IF pre = None THEN <<>> ELSE <<[key |-> PreReleaseKey, value |-> pre]>>)
         \o (IF eng = None THEN <<>> ELSE <<[key |-> EngineKey, value |-> eng]>>),
     assetUri |-> <<"u", "/">> \o name \o <<"/">> \o ver
                      \o (IF tp = None THEN <<>> ELSE <<"/">> \o tp),
     lastUpdated |-> "t0"]

VersionRecord(ver, flags, tp, pre, eng) == VersionRecordOf(NameA, ver, flags, tp, pre, eng)

VersionOptions ==
    {VersionRecord(ver, "validated", None, None, eng) :
        ver \in {V100, V100b, V110}, eng \in {EngineOk, EngineNewer}}
    \cup {VersionRecord(ver, "validated", LinuxX64, None, EngineOk) :
        ver \in {V100, V100b, V110}}
    \cup {VersionRecord(V110, "validated", None, True, EngineOk),
          VersionRecord(V110, "validated", None, None, None),
          VersionRecord(V110, "unvalidated", None, None, EngineOk),
          VersionRecord(V10, "none", None, None, Star)}

MaxVersions == 3

RECURSIVE SeqsUpTo(_, _)
SeqsUpTo(S, n) ==
    IF n = 0 THEN {<<>>}
    ELSE LET shorter == SeqsUpTo(S, n - 1)
         IN  shorter \cup {Append(q, x) : q \in shorter, x \in S}

\* an extension of one to n version records, and a platform
SelectInputs(n) ==
    [name : {NameA}, versions : SeqsUpTo(VersionOptions, n) \ {<<>>},
     platform : Platforms]

NoSelect == [done |-> FALSE] @@ NoFind(NoFiles, "none")

InitSelect ==
    /\ RunIdle
    /\ arg \in SelectInputs(MaxVersions)
    /\ ret = NoSelect

Select ==
    /\ pc = "idle"
    /\ ~ret.done
    /\ ret' = [done |-> TRUE]
                @@ find_version(arg.name, [versions |-> arg.versions],
                                arg.platform, HostEngine, NoFiles)
    /\ UNCHANGED <<arg, runvars>>

NextSelect == Select

SpecSelect == InitSelect /\ [][NextSelect]_vars

\* the versions of the input that the three conditions of C6 let through
Survives(v, platform) ==
    /\ v.targetPlatform = None \/ v.targetPlatform = platform
    /\ get_property(v, PreReleaseKey) # True
    /\ LET e == get_property(v, EngineKey)
       IN  e # None /\ ~engine_match_raises(e, HostEngine) /\ engine_match(e, HostEngine)

Survivors == {i \in 1..Len(arg.versions) : Survives(arg.versions[i], arg.platform)}

Key(v) == version_serial(v.version)

\* C6: the selected version is one that has no platform tag or the requested
\* one, is not flagged pre-release and declares an engine range matching the
\* host, and no other such version of the extension has a greater tuple.
C6_GreatestSurvivor ==
    (ret.done /\ ret.fault = "none") =>
        /\ \E i \in Survivors : arg.versions[i] = ret.version
        /\ \A i \in Survivors : ~TupleLess(Key(ret.version), Key(arg.versions[i]), 1)

\* three versions, the pre-release and the engine-incompatible ones numbered
\* higher than the valid one
C6_Witness ==
    /\ ret.done /\ ret.fault = "none"
    /\ arg.platform = LinuxX64
    /\ arg.versions = <<VersionRecord(V110, "validated", None, True, EngineOk),
                        VersionRecord(V110, "validated", None, None, EngineNewer),
                        VersionRecord(V100, "validated", None, None, EngineOk)>>
    /\ ret.version.version = V100

Triple(t) == <<t[1], t[2], t[3]>>

\* a tagged survivor t and an untagged survivor u of the same numeric triple
TagPair(t, u) ==
    /\ t \in Survivors /\ u \in Survivors
    /\ Len(Key(arg.versions[t])) = 4
    /\ Len(Key(arg.versions[u])) = 3
    /\ Triple(Key(arg.versions[t])) = Key(arg.versions[u])

\* C7 as stated: of a tagged and an untagged surviving version of the same
\* numeric triple, the tagged one is not the one selected.
C7_UntaggedSelected ==
    (ret.done /\ ret.fault = "none") =>
        \A t, u \in 1..Len(arg.versions) :
            TagPair(t, u) => ret.version.version # arg.versions[t].version

\* C7 as amended: of a tagged and an untagged surviving version of the same
\* numeric triple, the untagged one is never the one selected, and the
\* selection is a tagged version whenever no survivor has a greater triple.
C7_TaggedSelected ==
    (ret.done /\ ret.fault = "none") =>
        \A t, u \in 1..Len(arg.versions) :
            TagPair(t, u) =>
                /\ ret.version.version # arg.versions[u].version
                /\ (\A i \in Survivors :
                        ~TupleLess(Key(arg.versions[t]), Triple(Key(arg.versions[i])), 1))
                    => Len(Key(ret.version)) = 4

C7_Witness ==
    /\ ret.done /\ ret.fault = "none"
    /\ arg.versions = <<VersionRecord(V100b, "validated", None, None, EngineOk),
                        VersionRecord(V100, "validated", None, None, EngineOk)>>
    /\ ret.version.version = V100b

-----------------------------------------------------------------------------
(* Claims on version_serial and engine_match *)

\* C8: for every numeric triple, version_serial of "M.m.p-tag" is a 4-element
\* tuple that compares strictly greater than the 3-element tuple
\* version_serial makes of "M.m.p".
C8_TaggedGreater ==
    ret.done =>
        /\ Len(ret.tagged) = 4
        /\ Len(ret.plain) = 3
        /\ TupleLess(ret.plain, ret.tagged, 1)
        /\ ~TupleLess(ret.tagged, ret.plain, 1)

C8_Witness ==
    /\ ret.done
    /\ arg.M = 1 /\ arg.m = 50 /\ arg.p = 2 /\ arg.tag = Insider
    /\ ret.plain = <<1, 50, 2>>
    /\ ret.tagged = <<1, 50, 2, Insider>>

\* what the claim C9 states of a caret pattern ^M.m.p[-tag] and a host H.h.q
CaretAdmits(a) ==
    /\ a.tag # Insiders
    /\ a.M = a.H
    /\ a.m <= a.h
    /\ ~(a.m = a.h /\ a.p # 0 /\ a.p > a.q)

IsCase(a, M, m, p, H, h, q) ==
    /\ a.kind = "caret" /\ a.tag = None /\ a.htag = None
    /\ a.M = M /\ a.m = m /\ a.p = p /\ a.H = H /\ a.h = h /\ a.q = q

\* C9: for a caret pattern ^M.m.p[-tag] and a host H.h.q, engine_match returns
\* true exactly when the tag is not "insiders", M = H, m <= h and not
\* (m = h and p # 0 and p > q); ^1.50.0 admits 1.60.3 and 1.50.0 and rejects
\* 1.49.9, and ^1.50.3 rejects 1.50.2.
C9_CaretSemantics ==
    (ret.done /\ arg.kind = "caret") =>
        /\ ret.called /\ ~ret.raised
        /\ ret.value = CaretAdmits(arg)
        /\ IsCase(arg, 1, 50, 0, 1, 60, 3) => ret.value
        /\ IsCase(arg, 1, 50, 0, 1, 50, 0) => ret.value
        /\ IsCase(arg, 1, 50, 0, 1, 49, 9) => ~ret.value
        /\ IsCase(arg, 1, 50, 3, 1, 50, 2) => ~ret.value

C9_Witness ==
    /\ ret.done /\ ret.called
    /\ IsCase(arg, 1, 50, 3, 1, 50, 2)
    /\ ~ret.value

\* C10: engine_match returns true for the pattern "*" against every host, and
\* false for every pattern that is not "*" and does not start with "^".
C10_StarAndNoCaret ==
    (ret.done /\ ret.called) =>
        LET v == PatternOf(arg)
        IN  /\ v = Star => (~ret.raised /\ ret.value)
            /\ (v # Star /\ v[1] # "^") => (~ret.raised /\ ~ret.value)

C10_Witness ==
    /\ ret.done /\ ret.called /\ ~ret.raised /\ ~ret.value
    /\ arg.kind = "bare" /\ arg.tag = None
    /\ arg.M = 1 /\ arg.m = 50 /\ arg.p = 0
    /\ arg.H = 1 /\ arg.h = 60 /\ arg.q = 0

\* the components of arg that the specification SpecUpward draws
UpNums == 0..MaxNum

\* a caret pattern ^M.m.p[-tag] and two hosts H.h1.q1 and H.h2.q2 of one major
\* line, (h1, q1) not after (h2, q2)
UpwardInputs(N) ==
    {a \in [M : MajorVals, m : N, p : N, tag : {None, Insiders},
            H : MajorVals, h1 : N, q1 : N, h2 : N, q2 : N] :
        a.h1 < a.h2 \/ (a.h1 = a.h2 /\ a.q1 <= a.q2)}

NoUpward == [done |-> FALSE, first |-> FALSE, second |-> FALSE]

InitUpward ==
    /\ RunIdle
    /\ arg \in UpwardInputs(UpNums)
    /\ ret = NoUpward

\* engine_match(pattern, first host) and engine_match(pattern, second host)
EngineTestPair ==
    /\ pc = "idle"
    /\ ~ret.done
    /\ LET pattern == <<"^">> \o FormatVersion(arg.M, arg.m, arg.p, arg.tag)
       IN  ret' = [done |-> TRUE,
                   first |-> engine_match(pattern,
                                 FormatVersion(arg.H, arg.h1, arg.q1, None)),
                   second |-> engine_match(pattern,
                                  FormatVersion(arg.H, arg.h2, arg.q2, None))]
    /\ UNCHANGED <<arg, runvars>>

NextUpward == EngineTestPair

\* SpecUpward: engine_match of one caret pattern on two hosts
SpecUpward == InitUpward /\ [][NextUpward]_vars

\* C20: for a caret pattern and two hosts of the same major where the
\* (minor, patch) of the second is not lexicographically below that of the
\* first, engine_match on the second host is true whenever engine_match on the
\* first is.
C20_UpwardClosed == ret.done => (ret.first => ret.second)

\* the patch floor: ^1.2.2 admits 1.2.2 and 1.2.3
C20_Witness ==
    /\ ret.done /\ ret.first /\ ret.second
    /\ arg.tag = None /\ arg.M = 1 /\ arg.H = 1
    /\ arg.m = 2 /\ arg.p = 2
    /\ arg.h1 = 2 /\ arg.q1 = 2 /\ arg.h2 = 2 /\ arg.q2 = 3

-----------------------------------------------------------------------------
(* The catalog and the archives that Extension.run works on.               *)
(* The marketplace (requests.post in _query) and the archive server        *)
(* (requests.get in _download_files) answer without error; a query returns *)
(* the records of the names asked for, in an order of its own.  The catalog *)
(* holds five extensions: p.a with one build per platform, p.b and p.c     *)
(* platform-agnostic, p.a-linux-x64 whose artifact name is that of the     *)
(* linux-x64 build of p.a, and vadimcn.vscode-lldb.  The variant           *)
(* "nosurvivor" of p.c has a build for linux-x64 only.  dest_dir is empty  *)
(* when run is called, or, when the run is one of the seed p.b alone, it   *)
(* holds the artifact of p.b left by an earlier run with an older          *)
(* modification time.                                                      *)

MaxMembers == 1
MaxSeeds == 2

NameB == <<"p", ".", "b">>
NameC == <<"p", ".", "c">>
\* an extension of publisher p whose name ends like a platform tag
NameX == <<"p", ".", "a", "-", "l", "i", "n", "u", "x", "-", "x", "6", "4">>

PackNames == {NameA, NameB, NameC}
CatalogNames == PackNames \cup {NameX, LldbName}

MemberSets == {m \in SUBSET PackNames : Cardinality(m) <= MaxMembers}
SeedSets == {m \in SUBSET CatalogNames : Cardinality(m) <= MaxSeeds}

\* pack: "Extension Packs" is among the categories; haskey, members: the
\* extensionPack entry of extension/package.json in the archive
PlainOption == [pack |-> FALSE, haskey |-> FALSE, members |-> {}, variant |-> "good"]

\* not a pack, with an extensionPack entry in its manifest all the same
KeyedOption == [pack |-> FALSE, haskey |-> TRUE, members |-> {NameC}, variant |-> "good"]

Options ==
    {[pack |-> TRUE, haskey |-> TRUE, members |-> m, variant |-> "good"] : m \in MemberSets}
    \cup {PlainOption, KeyedOption}

OptionsC ==
    Options \cup {[pack |-> FALSE, haskey |-> FALSE, members |-> {}, variant |-> x] :
                     x \in {"badflags", "nosurvivor"}}

\* p.b is the extension that may be keyed without being a pack
Catalogs ==
    {c \in [PackNames -> OptionsC] :
        /\ c[NameA] \in Options \ {KeyedOption}
        /\ c[NameB] \in Options
        /\ c[NameC] # KeyedOption}

OptionOf(c, n) == IF n \in PackNames THEN c[n] ELSE PlainOption

VersionsOf(n, variant) ==
    CASE n = NameA ->
           <<VersionRecordOf(n, V100, "validated", LinuxX64, None, EngineOk),
             VersionRecordOf(n, V100, "validated", LinuxArm64, None, EngineOk)>>
      [] n = NameB ->
           <<VersionRecordOf(n, V100, "validated", None, None, EngineOk),
             VersionRecordOf(n, V110, "validated", None, None, EngineNewer),
             VersionRecordOf(n, V110, "none", None, True, EngineOk)>>
      [] n = NameC /\ variant = "good" ->
           <<VersionRecordOf(n, V100b, "validated", None, None, EngineOk),
             VersionRecordOf(n, V100, "validated", None, None, EngineOk)>>
      [] n = NameC /\ variant = "badflags" ->
           <<VersionRecordOf(n, V100, "validated", None, None, EngineOk),
             VersionRecordOf(n, V110, "unvalidated", None, None, EngineNewer)>>
      [] n = NameC /\ variant = "nosurvivor" ->
           <<VersionRecordOf(n, V100, "validated", LinuxX64, None, EngineOk),
             VersionRecordOf(n, V110, "validated", None, None, EngineNewer)>>
      [] OTHER ->
           <<VersionRecordOf(n, V100, "validated", None, None, EngineOk)>>

\* the record the catalog returns for the extension n
ExtensionRecord(c, n) ==
    LET dot == IndexOf(n, ".")
    IN  [publisherName |-> SubSeq(n, 1, dot - 1),
         extensionName |-> SubSeq(n, dot + 1, Len(n)),
         categories |-> IF OptionOf(c, n).pack THEN {"Extension Packs"} ELSE {"Other"},
         versions |-> VersionsOf(n, OptionOf(c, n).variant)]

\* the URLs under which the archive of the extension n is served
UrlsOf(c, n) ==
    {AssetUri(n, ExtensionRecord(c, n).versions[i], p) :
        i \in 1..Len(ExtensionRecord(c, n).versions), p \in Platforms}

\* extension/package.json of the archive served at url
PackageJson(c, url) ==
    LET n == CHOOSE x \in CatalogNames : url \in UrlsOf(c, x)
    IN  [haskey |-> OptionOf(c, n).haskey, members |-> OptionOf(c, n).members]

RECURSIVE Perms(_)
Perms(S) == IF S = {} THEN {<<>>}
            ELSE UNION {{<<x>> \o q : q \in Perms(S \ {x})} : x \in S}

PlatformOrder == <<LinuxX64, LinuxArm64>>

\* what _download_files leaves in the file k of dest_dir: the bytes served at
\* the URL of the descriptor, and the modification time set by os.utime
Fetched(dl, k) == <<dl[k][3], dl[k][4]>>

\* the artifact of p.b as an earlier run left it in dest_dir
LeftB ==
    LET v == VersionsOf(NameB, "good")[1]
    IN  [k \in {FileName(NameB, v, LinuxX64)} |->
            <<AssetUri(NameB, v, LinuxX64), "told">>]

\* the contents of dest_dir when run is called
DestDirs == {NoFiles, LeftB}

\* dest_dir is empty, or the run repeats an earlier run of the seed p.b
DestDirsOf(seeds) == IF seeds = {NameB} THEN DestDirs ELSE {NoFiles}

\* the names in S and the extensionPack members of the packs among them
WithMembers(c, S) ==
    S \cup UNION {IF OptionOf(c, n).pack THEN OptionOf(c, n).members ELSE {} : n \in S}

\* the extensions a run on seeds can ever ask the catalog c for: the loop of
\* run only follows the members of packs.  No other record of the catalog
\* is read by the run.
Reachable(c, seeds) == WithMembers(c, WithMembers(c, WithMembers(c, seeds)))

-----------------------------------------------------------------------------
(* Spec: Extension.run *)

\* Extension(engine) is constructed; run has not been called, and the
\* catalog has not been asked yet
Init ==
    /\ slugs = {}
    /\ catalog = [n \in PackNames |-> PlainOption]
    /\ engine = HostEngine
    /\ pc = "start"
    /\ all_extensions = {}
    /\ downloads = NoFiles
    /\ packs = {}
    /\ storage = NoFiles
    /\ new_extensions = {}
    /\ resp = <<>>
    /\ plat = 1
    /\ vsix = {}
    /\ fault = "none"
    /\ queried = {}
    /\ earlier = NoFiles
    /\ derived = NoDerived
    /\ resolved = {}
    /\ arg = <<>>
    /\ ret = <<>>

\* get_downloads that keeps the pack set of the pass before
get_downloads_KeepPacks(s) ==
    /\ downloads' = NoFiles
    /\ packs' = packs
    /\ earlier' = [k \in DOMAIN earlier \cup DOMAIN downloads |->
                      IF k \in DOMAIN earlier THEN earlier[k] ELSE downloads[k]]
    /\ queried' = queried \cup s
    /\ plat' = 1
    /\ vsix' = {}
    /\ IF s = {}
       THEN resp' = <<>> /\ pc' = "download"
       ELSE \E order \in Perms(s \cap CatalogNames) :
               /\ resp' = order
               /\ pc' = IF order = <<>> THEN "download" ELSE "find"

\* _get_downloads(s) up to the loop over the response: lines 143-147
get_downloads(s) ==
    /\ downloads' = NoFiles
    /\ packs' = {}
    /\ earlier' = [k \in DOMAIN earlier \cup DOMAIN downloads |->
                      IF k \in DOMAIN earlier THEN earlier[k] ELSE downloads[k]]
    /\ queried' = queried \cup s
    /\ plat' = 1
    /\ vsix' = {}
    /\ IF s = {}
       THEN resp' = <<>> /\ pc' = "download"
       ELSE \E order \in Perms(s \cap CatalogNames) :
               /\ resp' = order
               /\ pc' = IF order = <<>> THEN "download" ELSE "find"

\* run(dest_dir, seeds), lines 105-107: self.all_extensions = set();
\* self._get_downloads(slugs).  The catalog that answers this run is c; the
\* records the run cannot reach are left plain, every choice of them gives
\* the same run.
Run ==
    /\ pc = "start"
    /\ \E seeds \in SeedSets, c \in Catalogs :
       \E dest_dir \in DestDirsOf(seeds) :
           /\ \A n \in PackNames \ Reachable(c, seeds) : c[n] = PlainOption
           /\ slugs' = seeds
           /\ catalog' = c
           /\ storage' = dest_dir
           /\ all_extensions' = {}
           /\ get_downloads(seeds)
    /\ UNCHANGED <<engine, new_extensions, fault, derived, resolved, arg, ret>>

\* one call of find_version in _get_download (line 257 or 258); after the
\* second one, lines 151-154 of _get_downloads
FindVersion ==
    /\ pc = "find"
    /\ \E extension \in {ExtensionRecord(catalog, Head(resp))} :
       \E name \in {extension.publisherName \o <<".">> \o extension.extensionName} :
       \E r \in {find_version(name, extension, PlatformOrder[plat], engine, downloads)} :
       LET found == vsix \cup {r.vsix}
       IN  /\ derived' = [vsix |-> r.vsix, download |-> r.download,
                          version |-> r.version]
           /\ downloads' = r.downloads
           /\ IF r.fault # "none"
              THEN /\ pc' = "fault"
                   /\ fault' = r.fault
                   /\ UNCHANGED <<resolved, vsix, plat, resp, packs, all_extensions>>
              ELSE /\ fault' = fault
                   /\ resolved' = resolved \cup {<<name, r.vsix>>}
                   /\ IF plat = 1
                      THEN /\ vsix' = found
                           /\ plat' = 2
                           /\ UNCHANGED <<pc, resp, packs, all_extensions>>
                      ELSE /\ packs' = IF "Extension Packs" \in extension.categories
                                       THEN packs \cup found ELSE packs
                           /\ all_extensions' = all_extensions \cup found
                           /\ vsix' = {}
                           /\ plat' = 1
                           /\ resp' = Tail(resp)
                           /\ pc' = IF Tail(resp) = <<>> THEN "download" ELSE "find"
    /\ UNCHANGED <<slugs, catalog, engine, storage, new_extensions, queried,
                   earlier, arg, ret>>

\* DownloadFiles that takes a filename of the seen set for a file on storage
DownloadFiles_SkipSeen ==
    /\ pc = "download"
    /\ storage' = [k \in DOMAIN storage \cup (DOMAIN downloads \ all_extensions) |->
                      IF k \in DOMAIN storage THEN storage[k]
                      ELSE Fetched(downloads, k)]
    /\ pc' = "loop"
    /\ UNCHANGED <<slugs, catalog, engine, all_extensions, downloads, packs,
                   new_extensions, resp, plat, vsix, fault, queried, earlier,
                   derived, resolved, arg, ret>>

\* DownloadFiles that fetches the archives of the pack set only
DownloadFiles_PacksOnly ==
    /\ pc = "download"
    /\ storage' = [k \in DOMAIN storage \cup (DOMAIN downloads \cap packs) |->
                      IF k \in DOMAIN storage THEN storage[k]
                      ELSE Fetched(downloads, k)]
    /\ pc' = "loop"
    /\ UNCHANGED <<slugs, catalog, engine, all_extensions, downloads, packs,
                   new_extensions, resp, plat, vsix, fault, queried, earlier,
                   derived, resolved, arg, ret>>

\* DownloadFiles that fetches every plan entry, on storage or not
DownloadFiles_Overwrite ==
    /\ pc = "download"
    /\ storage' = [k \in DOMAIN storage \cup DOMAIN downloads |->
                      IF k \in DOMAIN downloads THEN Fetched(downloads, k)
                      ELSE storage[k]]
    /\ pc' = "loop"
    /\ UNCHANGED <<slugs, catalog, engine, all_extensions, downloads, packs,
                   new_extensions, resp, plat, vsix, fault, queried, earlier,
                   derived, resolved, arg, ret>>

\* _download_files(dest_dir): lines 125-139
DownloadFiles ==
    /\ pc = "download"
    /\ storage' = [k \in DOMAIN storage \cup DOMAIN downloads |->
                      IF k \in DOMAIN storage THEN storage[k]
                      ELSE Fetched(downloads, k)]
    /\ pc' = "loop"
    /\ UNCHANGED <<slugs, catalog, engine, all_extensions, downloads, packs,
                   new_extensions, resp, plat, vsix, fault, queried, earlier,
                   derived, resolved, arg, ret>>

\* while self.packs: false, run returns
LoopExit ==
    /\ pc = "loop"
    /\ packs = {}
    /\ pc' = "done"
    /\ UNCHANGED <<slugs, catalog, engine, all_extensions, downloads, packs,
                   storage, new_extensions, resp, plat, vsix, fault, queried,
                   earlier, derived, resolved, arg, ret>>

\* the body of the while loop up to line 120: the members of the packs
ReadPacks ==
    /\ pc = "loop"
    /\ packs # {}
    /\ LET opened == {k \in DOMAIN downloads : k \in packs}
       IN  IF \E k \in opened : k \notin DOMAIN storage
           THEN pc' = "fault" /\ fault' = "FileNotFoundError"
                /\ UNCHANGED new_extensions
           ELSE IF \E k \in opened : ~PackageJson(catalog, storage[k][1]).haskey
           THEN pc' = "fault" /\ fault' = "KeyError" /\ UNCHANGED new_extensions
           ELSE /\ new_extensions' =
                      UNION {PackageJson(catalog, storage[k][1]).members : k \in opened}
                          \ all_extensions
                /\ pc' = "get"
                /\ fault' = fault
    /\ UNCHANGED <<slugs, catalog, engine, all_extensions, downloads, packs,
                   storage, resp, plat, vsix, queried, earlier, derived,
                   resolved, arg, ret>>

\* line 122: self._get_downloads(new_extensions)
Requery ==
    /\ pc = "get"
    /\ get_downloads(new_extensions)
    /\ UNCHANGED <<slugs, catalog, engine, all_extensions, storage,
                   new_extensions, fault, derived, resolved, arg, ret>>

Next == Run \/ FindVersion \/ DownloadFiles \/ LoopExit \/ ReadPacks \/ Requery

Spec == Init /\ [][Next]_vars

\* run is one thread of control that keeps taking its next step
FairSpec == Spec /\ WF_vars(Next)

-----------------------------------------------------------------------------
(* Claims on Extension.run *)

\* the extensionPack members that the archive of the pack n declares
MembersOf(n) == IF OptionOf(catalog, n).pack THEN OptionOf(catalog, n).members ELSE {}

\* C1: for every finite catalog and every pack-membership relation, cyclic
\* ones included, run eventually ends (it returns, or stops on a fault); it
\* never loops forever.
C1_RunTerminates == <>(pc \in {"done", "fault"})

\* a seed that is a pack with a member that is itself a pack
NestedSeed(s) ==
    /\ s \in slugs
    /\ OptionOf(catalog, s).pack
    /\ \E m \in MembersOf(s) : OptionOf(catalog, m).pack

Closure2(s) == {s} \cup MembersOf(s) \cup UNION {MembersOf(m) : m \in MembersOf(s)}

\* C2: when run returns for a seed that is a pack with a member that is a
\* pack, self.downloads holds an artifact of the seed, of each of its
\* members and of each of its members' members.
C2_PlanHoldsClosure ==
    pc = "done" =>
        \A s \in slugs :
            NestedSeed(s) =>
                \A n \in Closure2(s) :
                    \E f \in DOMAIN downloads : <<n, f>> \in resolved

\* C3: the frontier computed for a pass holds no identifier that was
\* submitted to the catalog query in an earlier pass.
C3_QueriedOnce == pc = "get" => new_extensions \cap queried = {}

\* C4: when a filename is derived in this pass with a descriptor that differs
\* from the one derived for it in an earlier pass, the run has aborted.
C4_MismatchAborts ==
    \A f \in DOMAIN downloads \cap DOMAIN earlier :
        downloads[f] # earlier[f] => pc = "fault"

\* C5: a find_version that derives a descriptor for a filename already in
\* self.downloads leaves self.downloads as it is when the descriptor equals
\* the stored one, and otherwise raises AssertionError with the stored entry
\* unmodified.
C5_AddKnownFile ==
    [][(pc = "find" /\ derived'.vsix \in DOMAIN downloads) =>
          IF derived'.download = downloads[derived'.vsix]
          THEN downloads' = downloads /\ fault' = "none" /\ pc' # "fault"
          ELSE downloads' = downloads /\ fault' = "AssertionError" /\ pc' = "fault"]_vars

C5_Witness ==
    /\ pc = "fault" /\ fault = "AssertionError"
    /\ derived.vsix \in DOMAIN downloads
    /\ downloads[derived.vsix] # derived.download
    /\ \E f \in DOMAIN downloads : f # derived.vsix

\* the extensions the catalog has returned so far in this run
Returned == queried \cap CatalogNames

\* the extension n has a version whose flags are neither "validated" nor "none"
BadFlags(n) ==
    \E i \in 1..Len(ExtensionRecord(catalog, n).versions) :
        ExtensionRecord(catalog, n).versions[i].flags \notin {"validated", "none"}

\* C11: when an extension of the response has a version whose validation
\* flag is not one of the two accepted values, the find_version called on it
\* stops the run with SystemExit, also when the filters reject that version;
\* nothing is resolved or downloaded by it or after it, and run does not
\* return normally.
C11_BadFlagsFatal ==
    [][/\ pc # "fault"
       /\ (pc = "find" /\ BadFlags(Head(resp))) =>
              /\ pc' = "fault" /\ fault' = "SystemExit"
              /\ downloads' = downloads /\ resolved' = resolved
              /\ storage' = storage
       /\ pc' = "done" => \A n \in Returned : ~BadFlags(n)]_vars

\* the flagged version of p.c declares an engine newer than the host; p.c
\* comes second in the response
C11_Witness ==
    /\ pc = "fault" /\ fault = "SystemExit"
    /\ resp # <<>> /\ Head(resp) = NameC
    /\ OptionOf(catalog, NameC).variant = "badflags"
    /\ DOMAIN downloads # {}

\* no version of the extension n passes the filters for the platform p
NoSurvivor(n, p) ==
    \A i \in 1..Len(ExtensionRecord(catalog, n).versions) :
        ~Survives(ExtensionRecord(catalog, n).versions[i], p)

\* C12: when no version of an extension of the response survives the
\* filters for one of the two platforms, the find_version called for that
\* platform faults and the run aborts; run never returns normally after the
\* catalog returned such an extension.
C12_NoSurvivorAborts ==
    [][/\ (pc = "find" /\ NoSurvivor(Head(resp), PlatformOrder[plat])) =>
              /\ pc' = "fault" /\ fault' # "none"
              /\ downloads' = downloads /\ storage' = storage
       /\ pc' = "done" =>
              \A n \in Returned, p \in Platforms : ~NoSurvivor(n, p)]_vars

\* p.c has a build for linux-x64 only: that one is resolved, then the run
\* aborts on linux-arm64
C12_Witness ==
    /\ pc = "fault" /\ fault = "IndexError"
    /\ plat = 2 /\ Head(resp) = NameC
    /\ \E f \in DOMAIN downloads : <<NameC, f>> \in resolved

\* identifier[-tag]-version.vsix, the tag left out when it is None
ArtifactName(n, tag, ver) ==
    n \o (IF tag = None THEN <<>> ELSE <<"-">> \o tag) \o <<"-">> \o ver \o VsixExt

\* C13 as stated: the filename find_version derives for an extension and a
\* requested platform carries a platform tag exactly when the selected
\* version has a targetPlatform, and it is that tag; when the version
\* selected for both platforms is one platform-agnostic version, the two
\* calls derive one filename.
C13_TagIffExplicit ==
    [][(pc = "find" /\ pc' # "fault") =>
          LET v == derived'.version
          IN  /\ derived'.vsix = ArtifactName(Head(resp), v.targetPlatform, v.version)
              /\ (plat = 2 /\ v.targetPlatform = None /\ derived.version = v)
                     => vsix = {derived'.vsix}]_vars

\* the tag find_version puts in the filename of the extension n
TagOf(n, v, platform) == IF n = LldbName THEN platform ELSE v.targetPlatform

\* C13 as amended: for every extension but vadimcn.vscode-lldb the filename
\* carries a platform tag exactly when the selected version has a
\* targetPlatform, and one platform-agnostic version selected for both
\* platforms gives one filename; for vadimcn.vscode-lldb the filename always
\* carries the requested platform, and the two platforms give two filenames.
C13_TagIffExplicitOrLldb ==
    [][(pc = "find" /\ pc' # "fault") =>
          LET v == derived'.version
              tag == TagOf(Head(resp), v, PlatformOrder[plat])
          IN  /\ derived'.vsix = ArtifactName(Head(resp), tag, v.version)
              /\ (plat = 2 /\ tag = None /\ derived.version = v)
                     => vsix = {derived'.vsix}
              /\ (plat = 2 /\ Head(resp) = LldbName) => derived'.vsix \notin vsix]_vars

\* the platform-agnostic version of vadimcn.vscode-lldb resolved for
\* linux-arm64
C13_Witness ==
    /\ fault = "none"
    /\ derived.version # <<>> /\ derived.version.targetPlatform = None
    /\ derived.vsix = LldbName \o <<"-">> \o LinuxArm64 \o <<"-">> \o V100 \o VsixExt
    /\ \E f \in DOMAIN downloads : f # derived.vsix /\ <<LldbName, f>> \in resolved

\* C14: once run is called, a file of dest_dir is never written again: every
\* step leaves the files on storage as they are, only _download_files adds
\* files, and it adds exactly the plan entries that are not on storage, each
\* with the bytes and the time of its descriptor.  A filename is thus
\* fetched only while it is absent, and it is never absent again.
C14_KnownFilesKept ==
    [][pc # "start" =>
          /\ \A k \in DOMAIN storage :
                 k \in DOMAIN storage' /\ storage'[k] = storage[k]
          /\ \A k \in DOMAIN storage' \ DOMAIN storage :
                 /\ pc = "download"
                 /\ k \in DOMAIN downloads
                 /\ storage'[k] = Fetched(downloads, k)
          /\ pc = "download" => DOMAIN downloads \subseteq DOMAIN storage']_vars

\* _download_files has run on a plan with an entry it fetched and an entry
\* whose file was on storage with other bytes or another time
C14_Witness ==
    /\ pc = "loop"
    /\ \E k \in DOMAIN downloads : storage[k] # Fetched(downloads, k)
    /\ \E k \in DOMAIN downloads \ DOMAIN LeftB : storage[k] = Fetched(downloads, k)

\* the extension whose archive the file k of dest_dir holds
ArchiveOf(k) == CHOOSE n \in CatalogNames : storage[k][1] \in UrlsOf(catalog, n)

\* C15: the archives the loop of run opens are archives of extensions in the
\* category "Extension Packs", and every identifier of the frontier it
\* computes is a member declared by the manifest of a file of the pack set.
C15_OnlyPacksOpened ==
    [][(pc = "loop" /\ packs # {}) =>
          /\ \A k \in DOMAIN downloads \cap packs :
                 k \in DOMAIN storage => OptionOf(catalog, ArchiveOf(k)).pack
          /\ pc' = "get" =>
                 \A n \in new_extensions' : \E k \in packs :
                     n \in PackageJson(catalog, storage[k][1]).members]_vars

\* C16: after each pass, self.all_extensions is the set of the identifiers
\* submitted to the catalog so far.
C16_SeenIsQueried == pc = "loop" => all_extensions = queried

\* C17: a step of the loop of run that opens archives finds the file of
\* every pack of the plan on storage and never raises FileNotFoundError, and
\* the loop is only entered from a _download_files that has left every file
\* of the plan on storage.
C17_ManifestAfterDownload ==
    [][/\ (pc = "loop" /\ packs # {}) =>
              /\ \A k \in DOMAIN downloads \cap packs : k \in DOMAIN storage
              /\ fault' # "FileNotFoundError"
       /\ pc' = "loop" =>
              /\ pc = "download"
              /\ DOMAIN downloads \subseteq DOMAIN storage']_vars

\* the manifest of a pack fetched in this pass has been read
C17_Witness ==
    /\ pc = "get" /\ new_extensions # {}
    /\ \E k \in packs \ DOMAIN LeftB : storage[k] = Fetched(downloads, k)

\* C18: after every step of a run every filename of self.packs is a key of
\* self.downloads, and no step removes an element from self.all_extensions.
C18_PacksInPlan ==
    [][/\ packs' \subseteq DOMAIN downloads'
       /\ all_extensions \subseteq all_extensions']_vars

\* a later pass: a pack and a non-pack in the plan, the seen set holding
\* filenames of the pass before
C18_Witness ==
    /\ pc = "loop"
    /\ packs # {} /\ packs # DOMAIN downloads
    /\ \E f \in all_extensions : f \notin DOMAIN downloads

\* C19: when run returns normally, every filename that a find_version of
\* this run has derived, in any pass, is a file of dest_dir.
C19_ResolvedOnStorage ==
    pc = "done" => \A x \in resolved : x[2] \in DOMAIN storage

\* run has returned after more than one pass
C19_Witness ==
    /\ pc = "done"
    /\ \E x \in resolved : x[2] \notin DOMAIN downloads /\ x[2] \notin DOMAIN LeftB

====
